---- MODULE Spec2Model ----
(***************************************************************************)
(* State-machine model of the UrbanAI frontend core:                       *)
(*   - AuthProvider (frontend/src/context/AuthContext.tsx): the session    *)
(*     held in React state and mirrored to localStorage by an effect;      *)
(*   - LocationSelector (frontend/src/components/LocationSelector.tsx):    *)
(*     the cascading territorial selector and its publish effect;          *)
(*   - FileUploader (one per upload section of the Dashboard) and          *)
(*     ChatAssistant, the two consumers of a selector's onLocationSelect.  *)
(*                                                                         *)
(* React is modelled by its observable cycle: a state setter enqueues an   *)
(* update, a commit makes it the rendered state, the effects whose         *)
(* dependencies changed run after the commit.  A discrete DOM event        *)
(* (select change, click, drop) is one action: handler, commit and the     *)
(* effects it triggers, up to the fixpoint.                                *)
(***************************************************************************)
EXTENDS Naturals, Sequences, FiniteSets

\* ------------------------------------------------------------------ values

\* JavaScript null (localStorage.getItem of a missing key, useState<string | null>).
Null == "<null>"

\* JavaScript truthiness of a string | null value: null and '' are falsy.
Truthy(x) == x # Null /\ x # ""

\* Inputs of login(newToken, newUsername): any string, the empty one included.
Tokens == {"", "tok1", "tok2"}
Usernames == {"", "alice", "bob"}


\* ------------------------------------------------------------------ territorial dataset

\* /data/comuni.json, the static dataset the selector fetches (an external
\* resource): one entry per municipality, in file order.
Data == <<
    [nome |-> "Tivoli",    provincia |-> "Roma",    regione |-> "Lazio"],
    [nome |-> "Fiesole",   provincia |-> "Firenze", regione |-> "Toscana"],
    [nome |-> "Tarquinia", provincia |-> "Viterbo", regione |-> "Lazio"] >>

\* Array.prototype.sort() without comparator: the names in code-unit order.
Lexicographic ==
    <<"Anzio", "Fiesole", "Firenze", "Lazio", "Roma", "Tarquinia", "Tivoli", "Toscana",
      "Viterbo">>

Rank(n) == CHOOSE i \in 1..Len(Lexicographic) : Lexicographic[i] = n

Range(q) == {q[i] : i \in 1..Len(q)}

RECURSIVE InsertSorted(_, _)
InsertSorted(x, q) ==
    IF q = <<>> THEN <<x>>
    ELSE IF Rank(x) <= Rank(Head(q)) THEN <<x>> \o q
    ELSE <<Head(q)>> \o InsertSorted(x, Tail(q))

RECURSIVE SortSeq(_)
SortSeq(q) == IF q = <<>> THEN <<>> ELSE InsertSorted(Head(q), SortSeq(Tail(q)))

\* Array.from(new Set(q)): first occurrences, in order.
RECURSIVE Dedup(_)
Dedup(q) ==
    IF q = <<>> THEN <<>>
    ELSE LET r == Dedup(SubSeq(q, 1, Len(q) - 1))
         IN  IF q[Len(q)] \in Range(r) THEN r ELSE Append(r, q[Len(q)])

MapRegione(q) == [i \in 1..Len(q) |-> q[i].regione]
MapProvincia(q) == [i \in 1..Len(q) |-> q[i].provincia]
MapNome(q) == [i \in 1..Len(q) |-> q[i].nome]

\* uniqueRegions of the load handler.
UniqueRegions(data) == SortSeq(Dedup(MapRegione(data)))

\* filteredProvinces of the province effect.
\* (FilteredProvincesPerRow: a faulty filter without the Set.)
FilteredProvincesPerRow(data, region) ==
    LET InRegion(item) == item.regione = region
    IN  SortSeq(MapProvincia(SelectSeq(data, InRegion)))
FilteredProvinces(data, region) ==
    LET InRegion(item) == item.regione = region
    IN  SortSeq(Dedup(MapProvincia(SelectSeq(data, InRegion))))

\* filteredMunicipalities of the municipality effect.
\* (FilteredMunicipalitiesOfRegion: a faulty filter that ignores the province.)
FilteredMunicipalitiesOfRegion(data, region, province) ==
    LET InRegion(item) == item.regione = region
    IN  SortSeq(MapNome(SelectSeq(data, InRegion)))
FilteredMunicipalities(data, region, province) ==
    LET InProvince(item) == item.regione = region /\ item.provincia = province
    IN  SortSeq(MapNome(SelectSeq(data, InProvince)))

\* ------------------------------------------------------------------ Scope values

Scope(r, p, m, l) == [region |-> r, province |-> p, municipality |-> m, normative_level |-> l]

\* "Determine effective level" of the selector's publish effect.
EffectiveLevel(r, p, m) ==
    IF m # "" THEN "comunale"
    ELSE IF p # "" THEN "provinciale"
    ELSE IF r # "" THEN "regionale"
    ELSE "nazionale"

\* ------------------------------------------------------------------ bounds

\* Upload sections of the Dashboard that are modelled (the Dashboard renders
\* four, one per level; they share no state).
NumSections == 2
\* Longest file queue of a section, and longest FileList of one drop or one
\* file selection.
MaxQueue == 2

\* Longest message sequence of a ChatAssistant.
MaxMessages == 4
\* Most requests of one ChatAssistant awaiting completion.
MaxOutstanding == 2
\* Milliseconds of the clock that are modelled.
MaxClock == 2
\* Most requests of unmounted ChatAssistants that are counted.
MaxOrphans == 1

Sections == 1..NumSections

\* The section whose <input id="file-upload"> comes first in the document.
FirstSection == 1

\* The level each section of the Dashboard hands to its FileUploader as
\* initialLocation.normative_level, in document order.
BucketLevels == <<"nazionale", "regionale", "provinciale", "comunale">>
BucketLevel(s) == BucketLevels[s]

\* ------------------------------------------------------------------ state

VARIABLES
    token,          \* AuthProvider: useState token (rendered value)
    username,       \* AuthProvider: useState username (rendered value)
    pending,        \* AuthProvider: updates enqueued by setToken/setUsername, not yet committed
    effectPending,  \* AuthProvider: the persistence effect is scheduled and has not run
    storage,        \* localStorage keys 'token' and 'username'
    call,           \* history of the last login/logout call (observation only)
    activeTab,      \* Dashboard: useState activeTab
    sel,            \* per upload section: the state of its LocationSelector
    loc,            \* per upload section: FileUploader.selectedLocation
    files,          \* per upload section: FileUploader.files (each entry also records
                    \*   the section's scope when it was enqueued: observation only)
    uploading,      \* per upload section: FileUploader.uploading
    uploadStatus,   \* per upload section: FileUploader.uploadStatus
    errorMessage,   \* per upload section: FileUploader.errorMessage
    chatLoc,        \* ChatAssistant.selectedLocation
    isContextOpen,  \* ChatAssistant.isContextOpen
    chatSel,        \* the state of the LocationSelector of the chat's context panel
    messages,       \* ChatAssistant.messages
    ids,            \* ids[i] is the id of messages[i]
    input,          \* ChatAssistant.input, as a sequence of characters
    isLoading,      \* ChatAssistant.isLoading
    outstanding,    \* requests of the mounted ChatAssistant that have not completed
                    \*   (observation only)
    orphans,        \* requests of unmounted ChatAssistants that have not completed
                    \*   (observation only)
    clock,          \* the reading of Date.now(), in milliseconds from the start
    out             \* what the last event emitted: onLocationSelect calls, requests
                    \*   (observation only)

authVars == <<token, username, pending, effectPending, storage, call>>
\* What an event of the Dashboard leaves alone: the session and the clock.
appVars == <<authVars, clock>>
sectionVars == <<sel, loc, files, uploading, uploadStatus, errorMessage>>
chatMsgVars == <<messages, ids, input, isLoading, outstanding, orphans>>
chatVars == <<chatLoc, isContextOpen, chatSel, chatMsgVars>>
uiVars == <<activeTab, sectionVars, chatVars>>

vars == <<authVars, uiVars, clock, out>>

NoUpdate == <<"<none>">>
NoCall == [stage |-> "none", args |-> <<Null, Null>>]

EmptyStorage == [token |-> Null, username |-> Null]

\* What the persistence effect leaves under a key for a rendered value v:
\* setItem(key, v) when v is truthy, removeItem(key) otherwise.
\* (PersistedAlwaysSet: a faulty effect that calls setItem whatever the value.)
PersistedAlwaysSet(v) == v
Persisted(v) == IF Truthy(v) THEN v ELSE Null

\* useState(localStorage.getItem(key)): the rendered value after a (re)start.
\* (RehydrateTokenKey: a faulty initialiser that reads 'token' for both cells.)
RehydrateTokenKey(key) == storage["token"]
Rehydrate(key) == storage[key]

isAuthenticated == Truthy(token)


\* ------------------------------------------------------------------ LocationSelector

\* useState initial values of a freshly mounted LocationSelector.
SelectorMount ==
    [loading |-> TRUE, data |-> <<>>, regions |-> <<>>,
     selectedCountry |-> "Italia", selectedRegion |-> "", selectedProvince |-> "",
     selectedMunicipality |-> "", provinces |-> <<>>, municipalities |-> <<>>]

\* The two filter effects ("Filter provinces when region changes", "Filter
\* municipalities when province changes").  Neither resets a selection.
FilterEffects(s) ==
    [s EXCEPT
        !.provinces = IF s.selectedRegion # ""
                      THEN FilteredProvinces(s.data, s.selectedRegion)
                      ELSE <<>>,
        !.municipalities = IF s.selectedProvince # ""
                           THEN FilteredMunicipalities(s.data, s.selectedRegion, s.selectedProvince)
                           ELSE <<>>]

\* The argument of onLocationSelect in the publish effect ("Update parent on
\* selection changes").
Published(s) ==
    Scope(s.selectedRegion, s.selectedProvince, s.selectedMunicipality,
          EffectiveLevel(s.selectedRegion, s.selectedProvince, s.selectedMunicipality))

\* The dependencies of the publish effect.
PublishDeps(s) ==
    <<s.selectedCountry, s.selectedRegion, s.selectedProvince, s.selectedMunicipality>>

\* The onLocationSelect calls after a commit that takes a mounted selector
\* from prev to next: the publish effect runs once when a dependency changed.
\* (PublishCallsPerField: faulty effects that publish once for every changed
\* dependency.)
PublishCallsPerField(prev, next) ==
    [i \in 1..Cardinality({d \in 1..4 : PublishDeps(prev)[d] # PublishDeps(next)[d]})
        |-> Published(next)]
PublishCalls(prev, next) ==
    IF PublishDeps(prev) # PublishDeps(next) THEN <<Published(next)>> ELSE <<>>

\* <option> values of a <select>: the placeholder and the list.
Options(list) == {""} \cup Range(list)

\* The option a controlled <select value={v}> shows: v, or the first option
\* (the placeholder) when no option has the value v.  onChange fires only
\* for an option other than the one shown.
Shown(v, list) == IF v \in Options(list) THEN v ELSE ""

\* fetch('/data/comuni.json') resolved: setData, setRegions, setLoading(false).
LoadedWith(s, jsonData) ==
    FilterEffects([s EXCEPT !.loading = FALSE, !.data = jsonData,
                            !.regions = UniqueRegions(jsonData)])
Loaded(s) == LoadedWith(s, Data)

\* fetch rejected: the catch handler only clears the loading flag.
\* (LoadFailedWithRegions: a faulty handler that also fills the regions in.)
LoadFailedWithRegions(s) == [s EXCEPT !.loading = FALSE, !.regions = UniqueRegions(Data)]
LoadFailed(s) == [s EXCEPT !.loading = FALSE]

\* Country <select> onChange.
CanSelectCountry(s, c) ==
    /\ ~s.loading
    /\ c \in {"", "Italia"}
    /\ c # s.selectedCountry
\* (SelectCountryOnly: a faulty handler that only sets the country.)
SelectCountryOnly(s, c) == FilterEffects([s EXCEPT !.selectedCountry = c])
SelectCountry(s, c) ==
    FilterEffects(
        IF c # "Italia"
        THEN [s EXCEPT !.selectedCountry = c, !.selectedRegion = "",
                       !.selectedProvince = "", !.selectedMunicipality = ""]
        ELSE [s EXCEPT !.selectedCountry = c])

\* Region <select> onChange (disabled while the country is not 'Italia').
CanSelectRegion(s, r) ==
    /\ ~s.loading
    /\ s.selectedCountry = "Italia"
    /\ r \in Options(s.regions)
    /\ r # Shown(s.selectedRegion, s.regions)
SelectRegion(s, r) == FilterEffects([s EXCEPT !.selectedRegion = r])

\* Province <select> onChange (disabled while no region is selected).
CanSelectProvince(s, p) ==
    /\ ~s.loading
    /\ s.selectedRegion # ""
    /\ p \in Options(s.provinces)
    /\ p # Shown(s.selectedProvince, s.provinces)
SelectProvince(s, p) == FilterEffects([s EXCEPT !.selectedProvince = p])

\* Municipality <select> onChange (disabled while no province is selected).
CanSelectMunicipality(s, m) ==
    /\ ~s.loading
    /\ s.selectedProvince # ""
    /\ m \in Options(s.municipalities)
    /\ m # Shown(s.selectedMunicipality, s.municipalities)
SelectMunicipality(s, m) == FilterEffects([s EXCEPT !.selectedMunicipality = m])

\* The names a user can pick in some select.
Names == Range(Lexicographic)

\* One onLocationSelect call, as observed: the consumer (a section, or 0 for
\* the chat) and the argument.
PublishEvent(who, sc) == [kind |-> "publish", who |-> who, scope |-> sc]

\* ------------------------------------------------------------------ Dashboard state

\* Message ids: the fixed id of the greeting, and n.toString() for a number
\* n of milliseconds; toString is injective and yields no 'welcome'.
WelcomeId == <<"welcome", 0>>
Stamp(n) == <<"ms", n>>

\* The synthetic first message of a ChatAssistant.
Greeting == [role |-> "assistant", kind |-> "welcome", content |-> <<>>]

\* useState initial values of a FileUploader and of the ChatAssistant, which
\* are also the values after a tab is (re)mounted.
UploaderLocationMount == Scope("", "", "", "nazionale")
ChatLocationMount == Scope("", "", "", "")

UIMount ==
    /\ sel = [s \in Sections |-> SelectorMount]
    /\ loc = [s \in Sections |-> UploaderLocationMount]
    /\ files = [s \in Sections |-> <<>>]
    /\ uploading = [s \in Sections |-> FALSE]
    /\ uploadStatus = [s \in Sections |-> "idle"]
    /\ errorMessage = [s \in Sections |-> ""]
    /\ chatLoc = ChatLocationMount
    /\ isContextOpen = FALSE
    /\ chatSel = SelectorMount
    /\ messages = <<Greeting>>
    /\ ids = <<WelcomeId>>
    /\ input = <<>>
    /\ isLoading = FALSE
    /\ outstanding = 0
    /\ orphans = 0

\* Every component under the Dashboard is unmounted or mounted afresh.  The
\* requests of an unmounted ChatAssistant are not aborted (counted up to
\* MaxOrphans).
UIRemount ==
    /\ sel' = [s \in Sections |-> SelectorMount]
    /\ loc' = [s \in Sections |-> UploaderLocationMount]
    /\ files' = [s \in Sections |-> <<>>]
    /\ uploading' = [s \in Sections |-> FALSE]
    /\ uploadStatus' = [s \in Sections |-> "idle"]
    /\ errorMessage' = [s \in Sections |-> ""]
    /\ chatLoc' = ChatLocationMount
    /\ isContextOpen' = FALSE
    /\ chatSel' = SelectorMount
    /\ messages' = <<Greeting>>
    /\ ids' = <<WelcomeId>>
    /\ input' = <<>>
    /\ isLoading' = FALSE
    /\ outstanding' = 0
    /\ orphans' = IF orphans + outstanding < MaxOrphans THEN orphans + outstanding
                  ELSE MaxOrphans

\* ------------------------------------------------------------------ AuthProvider

\* State after construction: a first visit (empty storage) or a returning
\* user whose complete session was persisted by an earlier run.
AuthInit ==
    /\ storage \in {EmptyStorage, [token |-> "tok1", username |-> "alice"]}
    /\ token = storage.token
    /\ username = storage.username
    /\ pending = NoUpdate
    /\ effectPending = TRUE
    /\ call = NoCall

\* login(newToken, newUsername): setToken; setUsername.  Both updates are
\* enqueued in the same batch; nothing is rendered or persisted yet.
Login(t, u) ==
    /\ pending' = <<t, u>>
    /\ call' = [stage |-> "called", args |-> <<t, u>>]
    /\ out' = <<>>
    /\ UNCHANGED <<token, username, effectPending, storage, uiVars, clock>>

\* logout(): setToken(null); setUsername(null).
Logout ==
    /\ pending' = <<Null, Null>>
    /\ call' = [stage |-> "called", args |-> <<Null, Null>>]
    /\ out' = <<>>
    /\ UNCHANGED <<token, username, effectPending, storage, uiVars, clock>>

\* React commits the batched updates; the effect is scheduled when one of
\* its dependencies [token, username] changed.  ProtectedRoute unmounts the
\* Dashboard when the committed token is falsy.
Commit ==
    /\ pending # NoUpdate
    /\ token' = pending[1]
    /\ username' = pending[2]
    /\ pending' = NoUpdate
    /\ effectPending' = (effectPending \/ pending[1] # token \/ pending[2] # username)
    /\ call' = IF call.stage = "called"
               THEN [call EXCEPT !.stage = IF effectPending' THEN "committed" ELSE "persisted"]
               ELSE call
    /\ out' = <<>>
    /\ IF Truthy(pending[1])
       THEN UNCHANGED uiVars
       ELSE activeTab' = "upload" /\ UIRemount
    /\ UNCHANGED <<storage, clock>>

\* useEffect(() => { setItem/removeItem 'token'; setItem/removeItem 'username' }).
PersistEffect ==
    /\ effectPending
    /\ storage' = [token |-> Persisted(token), username |-> Persisted(username)]
    /\ effectPending' = FALSE
    /\ call' = IF call.stage = "committed" THEN [call EXCEPT !.stage = "persisted"] ELSE call
    /\ out' = <<>>
    /\ UNCHANGED <<token, username, pending, uiVars, clock>>

\* The page is reloaded (process restart): React state is rebuilt from
\* localStorage, enqueued updates and scheduled effects are lost, the effect
\* of the new mount is scheduled, every component starts afresh.
Reload ==
    /\ token' = Rehydrate("token")
    /\ username' = Rehydrate("username")
    /\ pending' = NoUpdate
    /\ effectPending' = TRUE
    /\ call' = IF call.stage \in {"called", "committed"} THEN [call EXCEPT !.stage = "lost"]
               ELSE IF call.stage = "persisted" THEN [call EXCEPT !.stage = "restarted"]
               ELSE call
    /\ out' = <<>>
    /\ activeTab' = "upload"
    /\ UIRemount
    /\ UNCHANGED <<storage, clock>>

NextAuth ==
    \/ \E t \in Tokens, u \in Usernames : Login(t, u)
    \/ Logout
    \/ Commit
    \/ PersistEffect
    \/ Reload

\* ------------------------------------------------------------------ Dashboard

\* ProtectedRoute renders the Dashboard only while isAuthenticated.
\* (DashboardUnguarded: a faulty route that renders it for everybody.)
DashboardUnguarded == TRUE
DashboardMounted == isAuthenticated
UploadTabMounted == DashboardMounted /\ activeTab = "upload"
ChatMounted == DashboardMounted /\ activeTab = "chat"

Tabs == {"chat", "upload", "settings"}

\* setActiveTab(item.id): the components of the tab that is left are
\* unmounted, those of the new tab are mounted with their initial state.
\* Each LocationSelector of the upload tab runs its publish effect on mount.
SwitchTab(t) ==
    /\ DashboardMounted
    /\ t # activeTab
    /\ activeTab' = t
    /\ UIRemount
    /\ out' = IF t = "upload"
              THEN [s \in Sections |-> PublishEvent(s, Published(SelectorMount))]
              ELSE <<>>
    /\ UNCHANGED appVars

\* ------------------------------------------------------------------ FileUploader sections

\* setSelectedLocation(sc) of section s, the onLocationSelect of its selector.
\* (SetSelectedLocationOfAll: a faulty, shared selectedLocation.)
SetSelectedLocationOfAll(l, s, sc) == [x \in DOMAIN l |-> sc]
SetSelectedLocation(l, s, sc) == [l EXCEPT ![s] = sc]

\* A change event of a select of section s that takes its selector to `next`:
\* the handler, the commit, the filter effects and the publish effect, whose
\* last call decides the section's selectedLocation.
SectionSelectorStep(s, next) ==
    /\ sel' = [sel EXCEPT ![s] = next]
    /\ LET calls == PublishCalls(sel[s], next)
       IN /\ loc' = IF calls = <<>> THEN loc
                    ELSE SetSelectedLocation(loc, s, calls[Len(calls)])
          /\ out' = [i \in 1..Len(calls) |-> PublishEvent(s, calls[i])]
    /\ UNCHANGED <<appVars, activeTab, files, uploading, uploadStatus, errorMessage, chatVars>>

SectionLoad(s) ==
    /\ UploadTabMounted
    /\ sel[s].loading
    /\ \E next \in {Loaded(sel[s]), LoadFailed(sel[s])} :
          sel' = [sel EXCEPT ![s] = next]
    /\ out' = <<>>
    /\ UNCHANGED <<appVars, activeTab, loc, files, uploading, uploadStatus, errorMessage, chatVars>>

SectionCountry(s, c) ==
    /\ UploadTabMounted
    /\ CanSelectCountry(sel[s], c)
    /\ SectionSelectorStep(s, SelectCountry(sel[s], c))

SectionRegion(s, r) ==
    /\ UploadTabMounted
    /\ CanSelectRegion(sel[s], r)
    /\ SectionSelectorStep(s, SelectRegion(sel[s], r))

SectionProvince(s, p) ==
    /\ UploadTabMounted
    /\ CanSelectProvince(sel[s], p)
    /\ SectionSelectorStep(s, SelectProvince(sel[s], p))

SectionMunicipality(s, m) ==
    /\ UploadTabMounted
    /\ CanSelectMunicipality(sel[s], m)
    /\ SectionSelectorStep(s, SelectMunicipality(sel[s], m))

\* ------------------------------------------------------------------ ChatAssistant context

\* setSelectedLocation of the chat, the onLocationSelect of its selector.
ChatSelectorStep(next) ==
    /\ chatSel' = next
    /\ LET calls == PublishCalls(chatSel, next)
       IN /\ chatLoc' = IF calls = <<>> THEN chatLoc ELSE calls[Len(calls)]
          /\ out' = [i \in 1..Len(calls) |-> PublishEvent(0, calls[i])]
    /\ UNCHANGED <<appVars, activeTab, sectionVars, isContextOpen, chatMsgVars>>

\* The context button: setIsContextOpen(!isContextOpen).  Opening mounts a
\* LocationSelector, whose publish effect runs on mount; closing unmounts it.
ToggleContext ==
    /\ ChatMounted
    /\ isContextOpen' = ~isContextOpen
    /\ chatSel' = SelectorMount
    /\ IF ~isContextOpen
       THEN /\ chatLoc' = Published(SelectorMount)
            /\ out' = <<PublishEvent(0, Published(SelectorMount))>>
       ELSE /\ UNCHANGED chatLoc
            /\ out' = <<>>
    /\ UNCHANGED <<appVars, activeTab, sectionVars, chatMsgVars>>

ChatLoad ==
    /\ ChatMounted
    /\ isContextOpen
    /\ chatSel.loading
    /\ chatSel' \in {Loaded(chatSel), LoadFailed(chatSel)}
    /\ out' = <<>>
    /\ UNCHANGED <<appVars, activeTab, sectionVars, chatLoc, isContextOpen, chatMsgVars>>

ChatCountry(c) ==
    /\ ChatMounted /\ isContextOpen
    /\ CanSelectCountry(chatSel, c)
    /\ ChatSelectorStep(SelectCountry(chatSel, c))

ChatRegion(r) ==
    /\ ChatMounted /\ isContextOpen
    /\ CanSelectRegion(chatSel, r)
    /\ ChatSelectorStep(SelectRegion(chatSel, r))

ChatProvince(p) ==
    /\ ChatMounted /\ isContextOpen
    /\ CanSelectProvince(chatSel, p)
    /\ ChatSelectorStep(SelectProvince(chatSel, p))

ChatMunicipality(m) ==
    /\ ChatMounted /\ isContextOpen
    /\ CanSelectMunicipality(chatSel, m)
    /\ ChatSelectorStep(SelectMunicipality(chatSel, m))

\* initialContext values a parent can hand to ChatAssistant: any subset of
\* the optional fields region, province, municipality.
InitialContexts == {
    [region |-> "Lazio"],
    [region |-> "Lazio", province |-> "Roma"],
    [region |-> "Lazio", province |-> "Roma", municipality |-> "Tivoli"],
    [region |-> "Toscana", province |-> "Roma"],
    [municipality |-> "Fiesole"] }

Field(ctx, f, default) == IF f \in DOMAIN ctx THEN ctx[f] ELSE default

\* The updater of the initialContext effect:
\* prev => ({...prev, ...initialContext, normative_level: ...}).
AdoptContext(prev, ctx) ==
    [region |-> Field(ctx, "region", prev.region),
     province |-> Field(ctx, "province", prev.province),
     municipality |-> Field(ctx, "municipality", prev.municipality),
     normative_level |->
        IF Field(ctx, "municipality", "") # "" THEN "comunale"
        ELSE IF Field(ctx, "region", "") # "" THEN "regionale"
        ELSE ""]

\* setMessages(prev => [...prev, msg]).
\* (Replaced: a faulty updater that keeps only the new message.)
Replaced(prev, msg) == <<msg>>
Appended(prev, msg) == Append(prev, msg)

\* "Auto-send welcome for location": the message the initialContext effect
\* appends for a context with a municipality.
ContextMessage(ctx) ==
    [role |-> "assistant", kind |-> "context", content |-> <<ctx.municipality>>]

\* The parent renders ChatAssistant with a new initialContext object: the
\* "Initialize context if provided" effect runs.
InjectContext(ctx) ==
    /\ ChatMounted
    /\ chatLoc' = AdoptContext(chatLoc, ctx)
    /\ IF Field(ctx, "municipality", "") # ""
       THEN /\ Len(messages) < MaxMessages
            /\ messages' = Appended(messages, ContextMessage(ctx))
            /\ ids' = Append(ids, Stamp(clock))
       ELSE UNCHANGED <<messages, ids>>
    /\ out' = <<[kind |-> "inject", who |-> 0, context |-> ctx]>>
    /\ UNCHANGED <<appVars, activeTab, sectionVars, isContextOpen, chatSel,
                   input, isLoading, outstanding, orphans>>

\* ------------------------------------------------------------------ ChatAssistant messages

\* Texts a user can type, as sequences of characters: nothing, blanks only,
\* a word, a word after a blank.
Texts == { <<>>, <<" ", " ">>, <<"c">>, <<" ", "c">> }

IsSpace(c) == c = " "

\* String.prototype.trim(): the text without its leading and trailing
\* white space.
RECURSIVE TrimStart(_)
TrimStart(t) == IF t # <<>> /\ IsSpace(Head(t)) THEN TrimStart(Tail(t)) ELSE t
RECURSIVE TrimEnd(_)
TrimEnd(t) ==
    IF t # <<>> /\ IsSpace(t[Len(t)]) THEN TrimEnd(SubSeq(t, 1, Len(t) - 1)) ELSE t
Trim(t) == TrimEnd(TrimStart(t))

\* onChange of the text input (disabled while isLoading): setInput.
SetInput(t) ==
    /\ ChatMounted
    /\ ~isLoading
    /\ t # input
    /\ input' = t
    /\ out' = <<>>
    /\ UNCHANGED <<appVars, activeTab, sectionVars, chatLoc, isContextOpen, chatSel,
                   messages, ids, isLoading, outstanding, orphans>>

\* The negation of handleSend's early return: if (!input.trim() || isLoading) return.
\* (CanSendBlank: a faulty guard that forgets the text.)
CanSendBlank == ~isLoading
CanSend == Trim(input) # <<>> /\ ~isLoading

UserMessage(text) == [role |-> "user", kind |-> "user", content |-> text]

\* `x || undefined` of the request body: an empty field is left out.
OrUndefined(x) == IF x = "" THEN Null ELSE x

\* The body and the Authorization header of the POST /api/chat/message of a
\* send: the text as typed, the messages of the render in which the send
\* was made (without the new user message), the chat's Scope.
\* (ChatRequestRecentHistory: a faulty body whose history leaves out the
\* first message.)
ChatRequestRecentHistory(text) ==
    [kind |-> "chat", message |-> text,
     history |-> [i \in 1..(Len(messages) - 1) |->
                    [role |-> messages[i + 1].role, content |-> messages[i + 1].content]],
     region |-> OrUndefined(chatLoc.region),
     province |-> OrUndefined(chatLoc.province),
     municipality |-> OrUndefined(chatLoc.municipality),
     authorization |-> token]
ChatRequest(text) ==
    [kind |-> "chat", message |-> text,
     history |-> [i \in 1..Len(messages) |->
                    [role |-> messages[i].role, content |-> messages[i].content]],
     region |-> OrUndefined(chatLoc.region),
     province |-> OrUndefined(chatLoc.province),
     municipality |-> OrUndefined(chatLoc.municipality),
     authorization |-> token]

\* One call of handleSend, as observed: the text and the flag it found.
SendEvent == [kind |-> "send", text |-> input, loading |-> isLoading]

\* handleSend up to the await (Enter in the input or a click on the button).
HandleSend ==
    /\ ChatMounted
    /\ IF CanSend
       THEN /\ Len(messages) < MaxMessages
            /\ outstanding < MaxOutstanding
            /\ messages' = Appended(messages, UserMessage(input))
            /\ ids' = Append(ids, Stamp(clock))
            /\ input' = <<>>
            /\ isLoading' = TRUE
            /\ outstanding' = outstanding + 1
            /\ UNCHANGED orphans
            /\ out' = <<SendEvent, ChatRequest(input)>>
       ELSE /\ out' = <<SendEvent>>
            /\ UNCHANGED chatMsgVars
    /\ UNCHANGED <<appVars, activeTab, sectionVars, chatLoc, isContextOpen, chatSel>>

\* How a request ends: a response with ok status, whose body has the text
\* and the sources in the server's order (none, or two); a response with
\* another status (handleSend throws); a rejected fetch.
ChatAnswers == {
    [ok |-> TRUE, kind |-> "response", response |-> <<"r">>, sources |-> <<>>],
    [ok |-> TRUE, kind |-> "response", response |-> <<"r">>, sources |-> <<"s2", "s1">>],
    [ok |-> FALSE, kind |-> "status", response |-> <<>>, sources |-> <<>>],
    [ok |-> FALSE, kind |-> "network", response |-> <<>>, sources |-> <<>>] }

\* botMsg and errorMsg of handleSend.
\* (BotMessageWithoutSources: a faulty botMsg that leaves the sources out.)
BotMessageWithoutSources(answer) ==
    [role |-> "assistant", kind |-> "answer", content |-> answer.response,
     sources |-> <<>>]
BotMessage(answer) ==
    [role |-> "assistant", kind |-> "answer", content |-> answer.response,
     sources |-> answer.sources]
ErrorReply == [role |-> "assistant", kind |-> "error", content |-> <<"error">>]

\* What the try and catch branches append for an answer.
\* (ReplyAlwaysBot: a faulty handler that shows a failure as an answer.)
ReplyAlwaysBot(answer) == BotMessage(answer)
ReplyMessage(answer) == IF answer.ok THEN BotMessage(answer) ELSE ErrorReply

\* handleSend after the await: try, catch and finally.  The catch branch
\* handles every failure, so the promise of handleSend never rejects.
ChatRespond(answer) ==
    /\ ChatMounted
    /\ outstanding > 0
    /\ Len(messages) < MaxMessages
    /\ messages' = Appended(messages, ReplyMessage(answer))
    /\ ids' = Append(ids, Stamp(clock + 1))
    /\ isLoading' = FALSE
    /\ outstanding' = outstanding - 1
    /\ out' = <<[kind |-> "completion", answer |-> answer, rejected |-> FALSE]>>
    /\ UNCHANGED <<appVars, activeTab, sectionVars, chatLoc, isContextOpen, chatSel, input,
                   orphans>>

\* A millisecond passes.
Tick ==
    /\ clock < MaxClock
    /\ clock' = clock + 1
    /\ out' = <<>>
    /\ UNCHANGED <<authVars, uiVars>>

\* handleSend after the await, in a ChatAssistant that was unmounted
\* meanwhile: its setMessages and setIsLoading act on the state of that
\* instance, which no mounted component shows.
\* (ChatRespondOrphanShared: a faulty store that all instances share.)
ChatRespondOrphanShared(answer) ==
    /\ orphans > 0
    /\ orphans' = orphans - 1
    /\ ChatMounted
    /\ Len(messages) < MaxMessages
    /\ messages' = Appended(messages, ReplyMessage(answer))
    /\ ids' = Append(ids, Stamp(clock + 1))
    /\ isLoading' = FALSE
    /\ out' = <<[kind |-> "orphan", answer |-> answer]>>
    /\ UNCHANGED <<appVars, activeTab, sectionVars, chatLoc, isContextOpen, chatSel, input,
                   outstanding>>
ChatRespondOrphan(answer) ==
    /\ orphans > 0
    /\ orphans' = orphans - 1
    /\ out' = <<[kind |-> "orphan", answer |-> answer]>>
    /\ UNCHANGED <<appVars, activeTab, sectionVars, chatLoc, isContextOpen, chatSel,
                   messages, ids, input, isLoading, outstanding>>

NextClock ==
    \/ \E t \in Tabs : SwitchTab(t)
    \/ \E t \in Texts : SetInput(t)
    \/ HandleSend
    \/ \E a \in ChatAnswers : ChatRespond(a)
    \/ Tick

NextChat ==
    \/ \E t \in Tabs : SwitchTab(t)
    \/ \E t \in Texts : SetInput(t)
    \/ HandleSend
    \/ \E a \in ChatAnswers : ChatRespond(a)
    \/ \E a \in ChatAnswers : ChatRespondOrphan(a)
    \/ \E ctx \in InitialContexts : InjectContext(ctx)

NextScope ==
    \/ \E t \in Tabs : SwitchTab(t)
    \/ \E s \in Sections : SectionLoad(s)
    \/ \E s \in Sections, c \in {"", "Italia"} : SectionCountry(s, c)
    \/ \E s \in Sections, r \in Names \cup {""} : SectionRegion(s, r)
    \/ \E s \in Sections, p \in Names \cup {""} : SectionProvince(s, p)
    \/ \E s \in Sections, m \in Names \cup {""} : SectionMunicipality(s, m)
    \/ ToggleContext
    \/ ChatLoad
    \/ \E c \in {"", "Italia"} : ChatCountry(c)
    \/ \E r \in Names \cup {""} : ChatRegion(r)
    \/ \E p \in Names \cup {""} : ChatProvince(p)
    \/ \E m \in Names \cup {""} : ChatMunicipality(m)
    \/ \E ctx \in InitialContexts : InjectContext(ctx)

\* ------------------------------------------------------------------ FileUploader queue and upload

\* Files a user can drop or select: a PDF and a file of another type.
UserFiles == {
    [name |-> "a.pdf", type |-> "application/pdf"],
    [name |-> "n.txt", type |-> "text/plain"] }

\* A non-empty FileList.
Batches == UNION {[1..n -> UserFiles] : n \in 1..MaxQueue}

\* .filter(file => file.type === 'application/pdf')
IsPdf(file) == file.type = "application/pdf"

\* setFiles(prev => [...prev, ...accepted]).  Each queue entry also records
\* the Scope its section held when it was enqueued and whether the file has
\* been part of a request (observation only: a File carries neither).
Enqueued(queue, batch, scope) ==
    LET accepted == SelectSeq(batch, IsPdf)
    IN  queue \o [i \in 1..Len(accepted) |->
                    [name |-> accepted[i].name, type |-> accepted[i].type,
                     enqueuedUnder |-> scope, sent |-> FALSE]]

\* A drop on the drop zone of section s, or a selection made through the
\* 'Seleziona File' label of section s, as observed: the section the user
\* acted in, the gesture, and how many files of the FileList the filter
\* left out.
IntakeEvent(s, gesture, batch) ==
    [kind |-> "intake", who |-> s, via |-> gesture,
     rejected |-> Len(batch) - Len(SelectSeq(batch, IsPdf))]

\* handleDrop of section s.
DropFiles(s, batch) ==
    /\ UploadTabMounted
    /\ Len(Enqueued(files[s], batch, loc[s])) <= MaxQueue
    /\ files' = [files EXCEPT ![s] = Enqueued(@, batch, loc[s])]
    /\ out' = <<IntakeEvent(s, "drop", batch)>>
    /\ UNCHANGED <<appVars, activeTab, sel, loc, uploading, uploadStatus, errorMessage, chatVars>>

\* The 'Seleziona File' label of section s: <label htmlFor="file-upload">
\* activates the first <input id="file-upload"> of the document, and every
\* section renders one with that id; its onChange is the handleChange of the
\* section that rendered it.
LabelTarget(s) == FirstSection

PickFiles(s, batch) ==
    LET target == LabelTarget(s)
    IN  /\ UploadTabMounted
        /\ Len(Enqueued(files[target], batch, loc[target])) <= MaxQueue
        /\ files' = [files EXCEPT ![target] = Enqueued(@, batch, loc[target])]
        /\ out' = <<IntakeEvent(s, "label", batch)>>
        /\ UNCHANGED <<appVars, activeTab, sel, loc, uploading, uploadStatus, errorMessage, chatVars>>

\* removeFile(idx): setFiles(prev => prev.filter((_, i) => i !== idx)).
RemoveFile(s, idx) ==
    /\ UploadTabMounted
    /\ idx \in 1..Len(files[s])
    /\ files' = [files EXCEPT ![s] = [i \in 1..(Len(@) - 1) |-> IF i < idx THEN @[i] ELSE @[i + 1]]]
    /\ out' = <<>>
    /\ UNCHANGED <<appVars, activeTab, sel, loc, uploading, uploadStatus, errorMessage, chatVars>>

\* "Append metadata": region, province and municipality are appended when
\* truthy (Null = not appended), normative_level always.
\* (FormTagsOfEmpty: a faulty request that always carries the initial tags.)
FormTagsOfEmpty(l) ==
    [region |-> Null, province |-> Null, municipality |-> Null,
     normative_level |-> "nazionale"]
FormTags(l) ==
    [region |-> IF l.region # "" THEN l.region ELSE Null,
     province |-> IF l.province # "" THEN l.province ELSE Null,
     municipality |-> IF l.municipality # "" THEN l.municipality ELSE Null,
     normative_level |-> l.normative_level]

\* The 'Carica N file' button of section s: rendered while the section's
\* queue is not empty, disabled while the section is uploading.
\* (UploadButtonExclusive: a faulty button that waits for the other sections.)
UploadButtonExclusive(s) ==
    /\ UploadTabMounted
    /\ Len(files[s]) > 0
    /\ \A t \in Sections : ~uploading[t]
\* (UploadButtonNeverDisabled: a faulty button without the disabled attribute.)
UploadButtonNeverDisabled(s) ==
    /\ UploadTabMounted
    /\ Len(files[s]) > 0
UploadButtonEnabled(s) ==
    /\ UploadTabMounted
    /\ Len(files[s]) > 0
    /\ ~uploading[s]

\* uploadFiles up to the await: the button is rendered while the queue is
\* not empty and is disabled while uploading.  The request is built from the
\* queue and the selectedLocation of this render.
StartUpload(s) ==
    /\ UploadButtonEnabled(s)
    /\ uploading' = [uploading EXCEPT ![s] = TRUE]
    /\ uploadStatus' = [uploadStatus EXCEPT ![s] = "idle"]
    /\ out' = <<[kind |-> "upload", who |-> s, files |-> files[s],
                 tags |-> FormTags(loc[s]), authorization |-> token]>>
    /\ files' = [files EXCEPT ![s] = [i \in 1..Len(@) |-> [@[i] EXCEPT !.sent = TRUE]]]
    /\ UNCHANGED <<appVars, activeTab, sel, loc, errorMessage, chatVars>>

\* What the server or the transport answers: acceptance; a rejection whose
\* response body has a detail; a failure without response, with the
\* transport's message; a failure with neither.
OkAnswer == [ok |-> TRUE, detail |-> Null, message |-> ""]
Answers == {
    OkAnswer,
    [ok |-> FALSE, detail |-> "Unsupported file type",
     message |-> "Request failed with status code 400"],
    [ok |-> FALSE, detail |-> Null, message |-> "Network Error"],
    [ok |-> FALSE, detail |-> Null, message |-> ""] }

\* error.response?.data?.detail || error.message || "Errore sconosciuto"
\* (ErrorTextGeneric: a faulty handler that drops the detail and the message.)
ErrorTextGeneric(answer) == "Errore sconosciuto"
\* (ErrorTextWithoutFallback: a faulty handler without the last alternative.)
ErrorTextWithoutFallback(answer) ==
    IF Truthy(answer.detail) THEN answer.detail ELSE answer.message
ErrorText(answer) ==
    IF Truthy(answer.detail) THEN answer.detail
    ELSE IF Truthy(answer.message) THEN answer.message
    ELSE "Errore sconosciuto"

\* uploadFiles after the await: the try, catch and finally branches.
\* (FinishUploadLate: a faulty completion that is also applied when the
\* section has no request in flight.)
FinishUploadLate(s, answer) ==
    /\ UploadTabMounted
    /\ uploading' = [uploading EXCEPT ![s] = FALSE]
    /\ IF answer.ok
       THEN /\ uploadStatus' = [uploadStatus EXCEPT ![s] = "success"]
            /\ files' = [files EXCEPT ![s] = <<>>]
            /\ out' = <<[kind |-> "onUploadSuccess", who |-> s]>>
            /\ UNCHANGED errorMessage
       ELSE /\ uploadStatus' = [uploadStatus EXCEPT ![s] = "error"]
            /\ errorMessage' = [errorMessage EXCEPT ![s] = ErrorText(answer)]
            /\ out' = <<[kind |-> "failure", who |-> s, answer |-> answer]>>
            /\ UNCHANGED files
    /\ UNCHANGED <<appVars, activeTab, sel, loc, chatVars>>
FinishUpload(s, answer) ==
    /\ UploadTabMounted
    /\ uploading[s]
    /\ uploading' = [uploading EXCEPT ![s] = FALSE]
    /\ IF answer.ok
       THEN /\ uploadStatus' = [uploadStatus EXCEPT ![s] = "success"]
            /\ files' = [files EXCEPT ![s] = <<>>]
            /\ out' = <<[kind |-> "onUploadSuccess", who |-> s]>>
            /\ UNCHANGED errorMessage
       ELSE /\ uploadStatus' = [uploadStatus EXCEPT ![s] = "error"]
            /\ errorMessage' = [errorMessage EXCEPT ![s] = ErrorText(answer)]
            /\ out' = <<[kind |-> "failure", who |-> s, answer |-> answer]>>
            /\ UNCHANGED files
    /\ UNCHANGED <<appVars, activeTab, sel, loc, chatVars>>

NextUpload ==
    \/ \E t \in Tabs : SwitchTab(t)
    \/ \E s \in Sections, b \in Batches : DropFiles(s, b)
    \/ \E s \in Sections, b \in Batches : PickFiles(s, b)
    \/ \E s \in Sections, i \in 1..MaxQueue : RemoveFile(s, i)
    \/ \E s \in Sections : StartUpload(s)
    \/ \E s \in Sections, a \in Answers : FinishUpload(s, a)

\* Drops, sends and completions in all sections, and the region select of
\* the first section.
NextTagging ==
    \/ \E t \in Tabs : SwitchTab(t)
    \/ SectionLoad(FirstSection)
    \/ \E r \in Names \cup {""} : SectionRegion(FirstSection, r)
    \/ \E s \in Sections, b \in Batches : DropFiles(s, b)
    \/ \E s \in Sections : StartUpload(s)
    \/ \E s \in Sections, a \in Answers : FinishUpload(s, a)

\* The same with dismissals.
NextRetry ==
    \/ NextTagging
    \/ \E s \in Sections, i \in 1..MaxQueue : RemoveFile(s, i)

\* ------------------------------------------------------------------ any dataset

\* Rows a comuni.json can hold, and the files of up to MaxRows rows, in any
\* order and with repeated rows: the selector takes the parsed file as it is.
MaxRows == 3
Rows == Range(Data) \cup {[nome |-> "Anzio", provincia |-> "Roma", regione |-> "Lazio"]}
Datasets == UNION {[1..n -> Rows] : n \in 1..MaxRows}

\* The fetch of section s resolved with file jsonData.
SectionLoadOf(s, jsonData) ==
    /\ UploadTabMounted
    /\ sel[s].loading
    /\ sel' = [sel EXCEPT ![s] = LoadedWith(sel[s], jsonData)]
    /\ out' = <<>>
    /\ UNCHANGED <<appVars, activeTab, loc, files, uploading, uploadStatus, errorMessage, chatVars>>

\* The selector of the first section over any file.
NextIndex ==
    \/ \E t \in Tabs : SwitchTab(t)
    \/ \E d \in Datasets : SectionLoadOf(FirstSection, d)
    \/ \E r \in Names \cup {""} : SectionRegion(FirstSection, r)
    \/ \E p \in Names \cup {""} : SectionProvince(FirstSection, p)
    \/ \E m \in Names \cup {""} : SectionMunicipality(FirstSection, m)

\* ------------------------------------------------------------------ session and requests

\* The answers to a request whose token the server does not accept (absent
\* or expired): status 401 with a detail for axios, a response that is not
\* ok for fetch.
Unauthorized ==
    [ok |-> FALSE, detail |-> "Could not validate credentials",
     message |-> "Request failed with status code 401"]
ChatUnauthorized ==
    [ok |-> FALSE, kind |-> "unauthorized", response |-> <<>>, sources |-> <<>>]

\* Logins, logouts and reloads interleaved with uploads of the first
\* section and with chat queries, which the server may refuse.
NextSession ==
    \/ NextAuth
    \/ \E t \in Tabs : SwitchTab(t)
    \/ \E b \in Batches : DropFiles(FirstSection, b)
    \/ StartUpload(FirstSection)
    \/ \E a \in Answers \cup {Unauthorized} : FinishUpload(FirstSection, a)
    \/ \E t \in Texts : SetInput(t)
    \/ HandleSend
    \/ \E a \in ChatAnswers \cup {ChatUnauthorized} : ChatRespond(a)

\* ------------------------------------------------------------------ specifications

Init ==
    /\ AuthInit
    /\ clock = 0
    /\ activeTab = "upload"
    /\ UIMount
    /\ out = <<>>

Next == NextAuth \/ NextScope \/ NextUpload \/ NextChat

Spec == Init /\ [][Next]_vars

\* The session store alone: login, logout, commits, effects and reloads.
SpecAuth == Init /\ [][NextAuth]_vars

\* A signed-in user working with the selectors of the upload sections and of
\* the chat.
SpecScope == Init /\ [][NextScope]_vars

\* A signed-in user working with the file queues of the upload sections.
SpecUpload == Init /\ [][NextUpload]_vars

\* A signed-in user dropping and sending files in the upload sections and
\* changing the Scope of the first section through its region select while
\* files are queued or in flight.
SpecTagging == Init /\ [][NextTagging]_vars

\* The same user, also dismissing queued files.
SpecRetry == Init /\ [][NextRetry]_vars

\* A signed-in user conversing with the assistant.
SpecChat == Init /\ [][NextChat]_vars

\* A signed-in user working with the selector of the first section, loaded
\* from any file.
SpecIndex == Init /\ [][NextIndex]_vars

\* The conversation of the Dashboard's ChatAssistant, which is handed no
\* context, with the clock running.
SpecClock == Init /\ [][NextClock]_vars

\* A user signing in and out while uploading and conversing.
SpecSession == Init /\ [][NextSession]_vars

\* ------------------------------------------------------------------ SessionStore claims

\* No login or logout has been called since the last (re)start: the rendered
\* session is the one rehydrated from storage.
JustRehydrated == call.stage \in {"none", "lost", "restarted"}

PartialRecord == (storage.token = Null) # (storage.username = Null)

\* C1: in every observable state token and username are both present or
\* both absent (absent = null).
C1_TokenAndIdentityTogether == (token = Null) <=> (username = Null)

C4_PartialRecordIsLoggedOut ==
    (JustRehydrated /\ PartialRecord) =>
        token = Null /\ username = Null /\ ~isAuthenticated

\* ------------------------------------------------------------------ Scope claims

\* Hierarchical consistency against the dataset: a non-empty province is a
\* province of the region, a non-empty municipality one of (region, province).
InDataset(sc) ==
    /\ sc.province # "" =>
          \E i \in 1..Len(Data) :
              Data[i].regione = sc.region /\ Data[i].provincia = sc.province
    /\ sc.municipality # "" =>
          \E i \in 1..Len(Data) :
              /\ Data[i].regione = sc.region
              /\ Data[i].provincia = sc.province
              /\ Data[i].nome = sc.municipality

\* The level the Scope invariant of the data model prescribes.
MostSpecificLevel(sc) ==
    IF sc.municipality # "" THEN "comunale"
    ELSE IF sc.province # "" THEN "provinciale"
    ELSE IF sc.region # "" THEN "regionale"
    ELSE "nazionale"

ProvincesOfRegion(r) == {Data[i].provincia : i \in {j \in 1..Len(Data) : Data[j].regione = r}}

C6_PublishedScopeConsistent ==
    /\ \A s \in Sections : InDataset(loc[s])
    /\ \A i \in 1..Len(out) : out[i].kind = "publish" => InDataset(out[i].scope)

\* C7: changing the region, with a province selected, to another region
\* that does not contain that province clears province and municipality and
\* publishes exactly one Scope, the regional one of the new region.
C7_RegionChangeClearsAndPublishesOnce ==
    [][ \A s \in Sections :
          ( /\ sel[s].selectedRegion # ""
            /\ sel[s].selectedProvince # ""
            /\ sel'[s].selectedRegion \notin {"", sel[s].selectedRegion}
            /\ sel[s].selectedProvince \notin ProvincesOfRegion(sel'[s].selectedRegion) )
          => /\ sel'[s].selectedProvince = ""
             /\ sel'[s].selectedMunicipality = ""
             /\ out' = <<PublishEvent(s, Scope(sel'[s].selectedRegion, "", "", "regionale"))>>
      ]_vars

\* C8: a write of a hierarchically inconsistent Scope is rejected: no step
\* stores a new inconsistent Scope in a section or in the chat.
C8_InconsistentWriteRejected ==
    [][ /\ \A s \in Sections : ~InDataset(loc'[s]) => loc'[s] = loc[s]
        /\ ~InDataset(chatLoc') => chatLoc' = chatLoc ]_vars

\* C9: the level of every working Scope of a mounted surface is its most
\* specific non-empty field.
C9_LevelIsMostSpecific ==
    /\ UploadTabMounted =>
          \A s \in Sections : loc[s].normative_level = MostSpecificLevel(loc[s])
    /\ ChatMounted => chatLoc.normative_level = MostSpecificLevel(chatLoc)

\* ------------------------------------------------------------------ upload tagging claims

\* The upload requests sent in the last step.
UploadsSent == {out[i] : i \in {j \in 1..Len(out) : out[j].kind = "upload"}}

\* The form fields of a request are those of Scope sc: a field is present
\* with the Scope's value, or absent where the Scope's field is empty.
TaggedAs(tags, sc) ==
    /\ tags.region = (IF sc.region = "" THEN Null ELSE sc.region)
    /\ tags.province = (IF sc.province = "" THEN Null ELSE sc.province)
    /\ tags.municipality = (IF sc.municipality = "" THEN Null ELSE sc.municipality)
    /\ tags.normative_level = sc.normative_level

Events(o, k) == {o[i] : i \in {j \in 1..Len(o) : o[j].kind = k}}

\* C11: a drop or a file selection made in one section changes the queue of
\* no other section.
C11_IntakeStaysInBucket ==
    [][ \A e \in Events(out', "intake") :
          \A t \in Sections \ {e.who} : files'[t] = files[t] ]_vars

\* C12: every upload request carries, as its level tag, the level of the
\* section that sent it.
C12_UploadCarriesBucketLevel ==
    \A u \in UploadsSent : u.tags.normative_level = BucketLevel(u.who)

\* C13: sections upload independently.  Whatever the other sections are
\* doing, a section with a non-empty queue and no upload of its own in
\* flight can start one, and a section whose upload is in flight can complete
\* it; and a failure in one section changes the queue, the progress flag,
\* the status and the error message of no other section.
C13_BucketsIndependent ==
    /\ [](\A s \in Sections :
            (UploadTabMounted /\ Len(files[s]) > 0 /\ ~uploading[s])
                => ENABLED StartUpload(s))
    /\ [](\A s \in Sections :
            (UploadTabMounted /\ uploading[s])
                => ENABLED FinishUpload(s, OkAnswer))
    /\ [][ \A s \in Sections :
            (uploading[s] /\ ~uploading'[s] /\ uploadStatus'[s] = "error")
                => \A t \in Sections \ {s} :
                      /\ files'[t] = files[t]
                      /\ uploading'[t] = uploading[t]
                      /\ uploadStatus'[t] = uploadStatus[t]
                      /\ errorMessage'[t] = errorMessage[t] ]_vars

\* One section has failed and keeps its queue while another is in flight.
C13_Witness ==
    /\ uploadStatus[1] = "error"
    /\ Len(files[1]) > 0
    /\ uploading[2]

\* The queued files the error notice of section s stands for: the notice is
\* rendered once, under the whole queue, while uploadStatus is 'error'.
MarkedFailed(s) == IF uploadStatus[s] = "error" THEN 1..Len(files[s]) ELSE {}

C15_RemovedOnlyByDismissalOrOwnSuccess ==
    [][ \A s \in Sections :
          (activeTab' = activeTab /\ Len(files'[s]) < Len(files[s]))
              => \/ uploading'[s] = uploading[s]
                 \/ /\ Events(out', "onUploadSuccess") # {}
                    /\ \A i \in 1..Len(files[s]) : files[s][i].sent ]_vars

\* C16: a section in 'error' status becomes 'success' only through a new
\* send.  A section in 'error' has no request in flight; a status becomes
\* 'success' only in a step that completes a request in flight; and a
\* request comes to be in flight only in a step that sends one.
C16_FailedSucceedsOnlyByNewSend ==
    /\ [](\A s \in Sections : uploadStatus[s] = "error" => ~uploading[s])
    /\ [][ \A s \in Sections :
            (uploadStatus'[s] = "success" /\ uploadStatus[s] # "success")
                => uploading[s] /\ ~uploading'[s] ]_vars
    /\ [][ \A s \in Sections :
            (~uploading[s] /\ uploading'[s])
                => \E u \in Events(out', "upload") : u.who = s ]_vars

\* A section that failed (its last error message is still held) has
\* succeeded after a new send.
C16_Witness ==
    \E s \in Sections :
        /\ uploadStatus[s] = "success"
        /\ errorMessage[s] = "Network Error"
        /\ Events(out, "onUploadSuccess") # {}

\* C17: a drop or a selection enqueues only PDF files, and when the filter
\* leaves a file out the step reports it: the status or the message of a
\* section changes, or a rejection is handed to the caller.
C17_RejectsReported ==
    [][ \A e \in Events(out', "intake") :
          /\ \A s \in Sections : \A i \in 1..Len(files'[s]) : IsPdf(files'[s][i])
          /\ e.rejected > 0
                => \/ uploadStatus' # uploadStatus
                   \/ errorMessage' # errorMessage
                   \/ Events(out', "rejected") # {} ]_vars

\* ------------------------------------------------------------------ ChatSession claims

\* A text that is empty or consists of blanks only.
IsBlankText(t) == \A i \in 1..Len(t) : t[i] = " "

\* C18: a send of an empty or blank text, and a send while a request is in
\* flight, append no message and make no request; at most one request of
\* the chat is outstanding at any time.
C18_SendGuarded ==
    /\ [][ \A e \in Events(out', "send") :
            (IsBlankText(e.text) \/ e.loading)
                => /\ messages' = messages
                   /\ Events(out', "chat") = {}
                   /\ outstanding' = outstanding ]_vars
    /\ [](outstanding <= 1)

\* A send of a blank text, and a send during a request, that did nothing.
C18_Witness ==
    \E e \in Events(out, "send") :
        /\ e.text = <<" ", " ">> \/ e.loading
        /\ Events(out, "chat") = {}
        /\ messages = <<Greeting>> \/ outstanding = 1

\* C19: a request that fails appends exactly one assistant message, which
\* describes the failure, and the promise of the send does not reject; every
\* completion clears isLoading; and with isLoading clear a send of a
\* non-blank text is accepted.
C19_FailureAppendsOneMessage ==
    /\ [][ \A e \in Events(out', "completion") :
            /\ ~isLoading'
            /\ ~e.rejected
            /\ ~e.answer.ok
                  => /\ Len(messages') = Len(messages) + 1
                     /\ SubSeq(messages', 1, Len(messages)) = messages
                     /\ messages'[Len(messages')].role = "assistant"
                     /\ messages'[Len(messages')].kind = "error" ]_vars
    /\ [](( /\ ChatMounted
            /\ ~isLoading
            /\ ~IsBlankText(input)
            /\ Len(messages) < MaxMessages
            /\ outstanding < MaxOutstanding )
                => ENABLED (HandleSend /\ Len(messages') = Len(messages) + 1))

\* A request failed, its failure message was appended, and the next send
\* was accepted.
C19_Witness ==
    /\ Len(messages) = 4
    /\ messages[3].kind = "error"
    /\ messages[4].role = "user"
    /\ isLoading

\* C20: the messages of a ChatAssistant start as the one assistant
\* greeting, and every step of a mounted ChatAssistant keeps the previous
\* sequence as a prefix of the new one.
C20_MessagesAppendOnly ==
    /\ [](/\ Len(messages) >= 1
          /\ messages[1].role = "assistant"
          /\ messages[1].kind = "welcome")
    /\ [][ IF activeTab' # activeTab
           THEN Len(messages') = 1
           ELSE /\ Len(messages') >= Len(messages)
                /\ SubSeq(messages', 1, Len(messages)) = messages ]_vars

\* A conversation of a send, a failure and a context injection.
C20_Witness ==
    /\ Len(messages) = 4
    /\ messages[2].role = "user"
    /\ messages[3].kind = "error"
    /\ messages[4].kind = "context"

\* The messages among the first n that are user messages, and those that
\* are the answer or the failure notice of a request.
UserIndexes(n) == {i \in 1..n : messages[i].role = "user"}
ReplyIndexes(n) == {i \in 1..n : messages[i].kind \in {"answer", "error"}}

\* C21: an accepted send appends exactly one message, the user message with
\* the text; a completion appends exactly one assistant message, with the
\* response text and its sources in the server's order, or the failure
\* notice; and in every prefix of the sequence there are at least as many
\* user messages as answers and notices, the difference at the end being
\* the requests still outstanding.
C21_OneUserOneAssistantPerSend ==
    /\ [][ /\ Events(out', "chat") # {}
              => \E e \in Events(out', "send") :
                    messages' = Append(messages,
                        [role |-> "user", kind |-> "user", content |-> e.text])
           /\ \A e \in Events(out', "completion") :
                 /\ Len(messages') = Len(messages) + 1
                 /\ SubSeq(messages', 1, Len(messages)) = messages
                 /\ messages'[Len(messages')].role = "assistant"
                 /\ IF e.answer.ok
                    THEN /\ messages'[Len(messages')].content = e.answer.response
                         /\ messages'[Len(messages')].sources = e.answer.sources
                    ELSE messages'[Len(messages')].kind = "error" ]_vars
    /\ [](/\ \A n \in 1..Len(messages) :
                Cardinality(ReplyIndexes(n)) <= Cardinality(UserIndexes(n))
          /\ Cardinality(UserIndexes(Len(messages)))
                = Cardinality(ReplyIndexes(Len(messages))) + outstanding)

\* A send was answered with two sources.
C21_Witness ==
    /\ Len(messages) = 3
    /\ messages[2].role = "user"
    /\ messages[3].kind = "answer"
    /\ messages[3].sources = <<"s2", "s1">>
    /\ Events(out, "completion") # {}

\* ------------------------------------------------------------------ injected context claims

\* The name an acknowledgment of context ctx is to carry: the municipality,
\* or the region when there is no municipality.
AdoptedName(ctx) ==
    IF Field(ctx, "municipality", "") # "" THEN ctx.municipality
    ELSE Field(ctx, "region", "")

\* C22: a step that hands an initial context to the chat adopts its fields
\* and appends exactly one assistant message naming the adopted municipality
\* or region; a step that hands the context of the step before again appends
\* nothing.
C22_ContextAcknowledgedOnce ==
    [][ \A e \in Events(out', "inject") :
          /\ \A f \in DOMAIN e.context : chatLoc'[f] = e.context[f]
          /\ IF e \in Events(out, "inject")
             THEN messages' = messages
             ELSE AdoptedName(e.context) # ""
                  => /\ messages' # messages
                     /\ messages' = Append(messages, messages'[Len(messages')])
                     /\ messages'[Len(messages')].role = "assistant"
                     /\ messages'[Len(messages')].content
                           = <<AdoptedName(e.context)>> ]_vars

\* The value of field f that a context hands over: its own, or the empty
\* string for a field it does not carry.
Handed(ctx, f) == Field(ctx, f, "")

\* C23: after a publish the working Scope of the consumer is exactly the
\* published value: what a selector publishes replaces the Scope of its
\* section or of the chat, and the fields of the chat's Scope after an
\* injected context are the fields handed over, with nothing carried over
\* from the Scope before.
C23_PublishReplacesWholeScope ==
    [][ /\ \A e \in Events(out', "publish") :
              IF e.who = 0 THEN chatLoc' = e.scope ELSE loc'[e.who] = e.scope
        /\ \A e \in Events(out', "inject") :
              /\ chatLoc'.region = Handed(e.context, "region")
              /\ chatLoc'.province = Handed(e.context, "province")
              /\ chatLoc'.municipality = Handed(e.context, "municipality") ]_vars

\* ------------------------------------------------------------------ selector cascade claims

\* The municipalities of province p of region r in the dataset.
MunicipalitiesOf(r, p) ==
    {Data[i].nome : i \in {j \in DOMAIN Data : Data[j].regione = r /\ Data[j].provincia = p}}

\* C24: a change of the province of a section's selector to another
\* province recomputes the municipality choices to those of the new province,
\* clears the municipality that was chosen, and publishes the Scope of the
\* new province with an empty municipality and level provincial.
C24_ProvinceChangeClearsMunicipality ==
    [][ \A s \in Sections :
          ( /\ sel[s].selectedMunicipality # ""
            /\ sel'[s].selectedRegion = sel[s].selectedRegion
            /\ sel'[s].selectedProvince \notin {"", sel[s].selectedProvince} )
          => /\ Range(sel'[s].municipalities)
                   = MunicipalitiesOf(sel'[s].selectedRegion, sel'[s].selectedProvince)
             /\ sel'[s].selectedMunicipality = ""
             /\ out' = <<PublishEvent(s, Scope(sel'[s].selectedRegion,
                                               sel'[s].selectedProvince, "", "provinciale"))>>
      ]_vars

\* C25: while the upload tab stays mounted, choosing the placeholder of the
\* region select of a section clears province and municipality and publishes
\* the national Scope; choosing the placeholder of the province select clears
\* the municipality and publishes the regional Scope; no lower field keeps a
\* value.
C25_PlaceholderWidensScope ==
    [][ \A s \in Sections :
          /\ ( /\ UploadTabMounted /\ UploadTabMounted'
               /\ sel[s].selectedRegion # ""
               /\ sel'[s].selectedRegion = ""
               /\ sel'[s].selectedCountry = sel[s].selectedCountry )
             => /\ sel'[s].selectedProvince = ""
                /\ sel'[s].selectedMunicipality = ""
                /\ out' = <<PublishEvent(s, Scope("", "", "", "nazionale"))>>
          /\ ( /\ UploadTabMounted /\ UploadTabMounted'
               /\ sel[s].selectedProvince # ""
               /\ sel'[s].selectedProvince = ""
               /\ sel'[s].selectedRegion = sel[s].selectedRegion
               /\ sel'[s].selectedRegion # "" )
             => /\ sel'[s].selectedMunicipality = ""
                /\ out' = <<PublishEvent(s, Scope(sel'[s].selectedRegion, "", "", "regionale"))>>
      ]_vars

\* ------------------------------------------------------------------ publish claims

\* The Scope of the selections of selector state s, its level the most
\* specific non-empty field.
ScopeOfSelection(s) ==
    Scope(s.selectedRegion, s.selectedProvince, s.selectedMunicipality,
          MostSpecificLevel(Scope(s.selectedRegion, s.selectedProvince,
                                  s.selectedMunicipality, "")))

\* C26: a step that changes the selections of a selector that stays mounted
\* (of an upload section, or of the chat's context panel) makes exactly one
\* publish, to that selector's consumer, carrying the selector's region,
\* province and municipality after the step and the level of their most
\* specific non-empty field.
C26_OnePublishPerChange ==
    [][ /\ \A s \in Sections :
              ( /\ UploadTabMounted /\ UploadTabMounted'
                /\ PublishDeps(sel'[s]) # PublishDeps(sel[s]) )
              => out' = <<PublishEvent(s, ScopeOfSelection(sel'[s]))>>
        /\ ( /\ ChatMounted /\ isContextOpen
             /\ ChatMounted' /\ isContextOpen'
             /\ PublishDeps(chatSel') # PublishDeps(chatSel) )
           => out' = <<PublishEvent(0, ScopeOfSelection(chatSel'))>> ]_vars

\* The country of a section's selector was changed to the placeholder, which
\* clears region, province and municipality with it, and one publish, of
\* the national Scope, was made.
C26_Witness ==
    /\ UploadTabMounted
    /\ sel[1].selectedCountry = ""
    /\ PublishDeps(sel[1]) = <<"", "", "", "">>
    /\ out = <<PublishEvent(1, Scope("", "", "", "nazionale"))>>

\* ------------------------------------------------------------------ session gate claims

\* The upload and chat requests issued in the last step.
Requests == Events(out, "upload") \cup Events(out, "chat")

\* C27: every upload or chat request is issued by a session that has a
\* token, and carries that token; while the session has no token no request
\* was issued in the last step, and neither the upload button nor the chat's
\* send can be used.
C27_RequestsOnlyWithToken ==
    /\ \A e \in Requests : Truthy(token) /\ e.authorization = token
    /\ ~Truthy(token) =>
          /\ Requests = {}
          /\ \A s \in Sections : ~ENABLED StartUpload(s)
          /\ ~ENABLED HandleSend

\* A chat query was sent with the token of a second login.
C27_Witness ==
    /\ storage.token = "tok1"
    /\ token = "tok2"
    /\ \E e \in Events(out, "chat") : e.authorization = "tok2"

\* C28: a completion of a chat query or of an upload that was refused for
\* its token logs the session out (logout is called, so that the route
\* redirects to the login page) and shows no inline error: no message is
\* appended to the chat and no error notice is set in the upload section.
C28_RefusalRedirectsToLogin ==
    [][ /\ \A e \in Events(out', "completion") :
              e.answer = ChatUnauthorized
              => /\ pending' = <<Null, Null>> \/ ~Truthy(token')
                 /\ messages' = messages
        /\ \A e \in Events(out', "failure") :
              e.answer = Unauthorized
              => /\ pending' = <<Null, Null>> \/ ~Truthy(token')
                 /\ uploadStatus'[e.who] # "error"
                 /\ errorMessage' = errorMessage ]_vars

\* ------------------------------------------------------------------ selection round trip claims

\* The selector of section s is mounted with the dataset loaded and the
\* country 'Italia'.
SelectorReady(s) ==
    /\ UploadTabMounted
    /\ ~sel[s].loading
    /\ sel[s].data = Data
    /\ sel[s].selectedCountry = "Italia"

\* C29: for every (region, province, municipality) of the dataset, in a
\* ready selector the region select offers the region, with the region
\* selected the province select offers the province, and with both selected
\* the municipality select offers the municipality; and the step that selects a municipality publishes, and stores
\* in the section, the Scope of the selector's region and province with that
\* municipality and level municipal, a triple of the dataset.
C29_TripleRoundTrip ==
    /\ [](\A s \in Sections, i \in DOMAIN Data :
            SelectorReady(s) =>
              /\ sel[s].selectedRegion # Data[i].regione
                 => CanSelectRegion(sel[s], Data[i].regione)
              /\ ( /\ sel[s].selectedRegion = Data[i].regione
                   /\ sel[s].selectedProvince # Data[i].provincia )
                 => CanSelectProvince(sel[s], Data[i].provincia)
              /\ ( /\ sel[s].selectedRegion = Data[i].regione
                   /\ sel[s].selectedProvince = Data[i].provincia
                   /\ sel[s].selectedMunicipality # Data[i].nome )
                 => CanSelectMunicipality(sel[s], Data[i].nome))
    /\ [][ \A s \in Sections :
             ( /\ SelectorReady(s)
               /\ sel'[s].selectedMunicipality \notin {"", sel[s].selectedMunicipality}
               /\ sel'[s].selectedRegion = sel[s].selectedRegion
               /\ sel'[s].selectedProvince = sel[s].selectedProvince )
             => /\ \E i \in DOMAIN Data :
                     /\ Data[i].regione = sel[s].selectedRegion
                     /\ Data[i].provincia = sel[s].selectedProvince
                     /\ Data[i].nome = sel'[s].selectedMunicipality
                /\ loc'[s] = Scope(sel[s].selectedRegion, sel[s].selectedProvince,
                                   sel'[s].selectedMunicipality, "comunale")
                /\ out' = <<PublishEvent(s, loc'[s])>> ]_vars

\* Lazio, Viterbo and Tarquinia were selected in the first section.
C29_Witness ==
    /\ SelectorReady(1)
    /\ sel[1].selectedMunicipality = "Tarquinia"
    /\ loc[1] = Scope("Lazio", "Viterbo", "Tarquinia", "comunale")
    /\ out = <<PublishEvent(1, loc[1])>>

\* ------------------------------------------------------------------ adoption claims

\* The selections of selector state s equal the fields of Scope sc.
ShowsScope(s, sc) ==
    /\ s.selectedRegion = sc.region
    /\ s.selectedProvince = sc.province
    /\ s.selectedMunicipality = sc.municipality

\* C30: after a step in which the chat adopts an injected context while its
\* context selector is mounted, the selector's selections equal the chat's
\* working Scope, and the step makes no publish back to the chat.
C30_AdoptionReachesSelector ==
    [][ \A e \in Events(out', "inject") :
          /\ isContextOpen' => ShowsScope(chatSel', chatLoc')
          /\ Events(out', "publish") = {} ]_vars

\* ------------------------------------------------------------------ chat query claims

\* Field f of query e is the field of the working Scope sc: absent where the
\* Scope's field is empty, the Scope's value otherwise.
CarriesField(e, sc, f) == IF sc[f] = "" THEN e[f] = Null ELSE e[f] = sc[f]

\* C31: the query of an accepted send carries as history the role and
\* content of every message of the sequence before the send, in order, as
\* message the text that was in the input, and as region, province and
\* municipality the non-empty fields of the chat's working Scope; the user
\* message appended by the send has that text.
C31_QueryCarriesHistoryTextScope ==
    [][ \A e \in Events(out', "chat") :
          /\ Len(e.history) = Len(messages)
          /\ \A i \in 1..Len(messages) :
                /\ e.history[i].role = messages[i].role
                /\ e.history[i].content = messages[i].content
          /\ e.message = input
          /\ messages' = Append(messages, messages'[Len(messages')])
          /\ messages'[Len(messages')].role = "user"
          /\ messages'[Len(messages')].content = e.message
          /\ CarriesField(e, chatLoc, "region")
          /\ CarriesField(e, chatLoc, "province")
          /\ CarriesField(e, chatLoc, "municipality") ]_vars

\* A query was sent after a failed one, under a Scope adopted with a region
\* only: its history has the greeting, the first text and the failure
\* notice, and it carries the region and no province.
C31_Witness ==
    \E e \in Events(out, "chat") :
        /\ e.message = <<" ", "c">>
        /\ Len(e.history) = 3
        /\ e.history[1].content = <<>>
        /\ e.history[2].role = "user"
        /\ e.history[3].content = <<"error">>
        /\ e.region = "Lazio"
        /\ e.province = Null

\* ------------------------------------------------------------------ hierarchy dataset claims

\* The selectors of the upload sections whose fetch of the dataset is in
\* flight: a selector fetches in its mount effect and is loading until its
\* own fetch is settled.
Fetching == {s \in Sections : sel[s].loading}

\* C32: the dataset is fetched once for all selectors of the upload tab: at
\* most one fetch is in flight, and the selectors that left their loading
\* state hold the same dataset.
C32_DatasetFetchedOnce ==
    UploadTabMounted =>
        /\ Cardinality(Fetching) <= 1
        /\ \A s1, s2 \in Sections \ Fetching : sel[s1].data = sel[s2].data

\* The names of sequence q are in strictly ascending order (sorted, and so
\* distinct).
StrictlySorted(q) == \A i, j \in 1..Len(q) : i < j => Rank(q[i]) < Rank(q[j])

\* The lists the selector of the first section computes from its dataset for
\* selected region r and province p.
ListsFor(r, p) ==
    FilterEffects([sel[FirstSection] EXCEPT !.selectedRegion = r, !.selectedProvince = p])

\* C33 as stated: for the dataset a selector has loaded, the regions are
\* the distinct region names in ascending order; for every region r the
\* provinces are the distinct province names of r in ascending order (none
\* for an empty or unknown r); for every r and p the municipalities are the
\* distinct municipality names of (r, p) in ascending order (none when
\* either is empty or unknown).
C33_MunicipalitiesDistinct ==
    LET d == sel[FirstSection].data
    IN  (UploadTabMounted /\ d # <<>>) =>
          /\ StrictlySorted(sel[FirstSection].regions)
          /\ Range(sel[FirstSection].regions) = {d[i].regione : i \in DOMAIN d}
          /\ \A r \in Names \cup {""}, p \in Names \cup {""} :
                /\ StrictlySorted(ListsFor(r, p).provinces)
                /\ Range(ListsFor(r, p).provinces)
                      = {d[i].provincia : i \in {j \in DOMAIN d : d[j].regione = r}}
                /\ StrictlySorted(ListsFor(r, p).municipalities)
                /\ Range(ListsFor(r, p).municipalities)
                      = {d[i].nome : i \in {j \in DOMAIN d :
                                              d[j].regione = r /\ d[j].provincia = p}}

\* The names of sequence q are in ascending order.
Sorted(q) == \A i, j \in 1..Len(q) : i < j => Rank(q[i]) <= Rank(q[j])

\* The rows of dataset d of region r and province p.
RowsOf(d, r, p) == {j \in DOMAIN d : d[j].regione = r /\ d[j].provincia = p}

\* C33: for the dataset a selector has loaded, regions and provinces are as
\* stated, and the municipalities of (r, p) are the names of the rows of
\* (r, p) in ascending order, one entry per row: distinct when no two rows
\* of the pair have the same name, and none when r or p is empty or unknown.
C33_ListsSortedPerRow ==
    LET d == sel[FirstSection].data
    IN  (UploadTabMounted /\ d # <<>>) =>
          /\ StrictlySorted(sel[FirstSection].regions)
          /\ Range(sel[FirstSection].regions) = {d[i].regione : i \in DOMAIN d}
          /\ \A r \in Names \cup {""}, p \in Names \cup {""} :
                /\ StrictlySorted(ListsFor(r, p).provinces)
                /\ Range(ListsFor(r, p).provinces)
                      = {d[i].provincia : i \in {j \in DOMAIN d : d[j].regione = r}}
                /\ Sorted(ListsFor(r, p).municipalities)
                /\ Range(ListsFor(r, p).municipalities) = {d[i].nome : i \in RowsOf(d, r, p)}
                /\ Len(ListsFor(r, p).municipalities) = Cardinality(RowsOf(d, r, p))
                /\ (\A i, j \in RowsOf(d, r, p) : d[i].nome = d[j].nome => i = j)
                   => StrictlySorted(ListsFor(r, p).municipalities)

\* A file that lists Tivoli before Anzio and Viterbo's Tarquinia before
\* both was loaded, and Lazio and Roma were selected: the selector offers
\* Anzio, then Tivoli.
C33_Witness ==
    /\ UploadTabMounted
    /\ Len(sel[FirstSection].data) = 3
    /\ sel[FirstSection].data[1].nome = "Tarquinia"
    /\ sel[FirstSection].data[2].nome = "Tivoli"
    /\ sel[FirstSection].regions = <<"Lazio">>
    /\ sel[FirstSection].provinces = <<"Roma", "Viterbo">>
    /\ sel[FirstSection].municipalities = <<"Anzio", "Tivoli">>

\* Selector state s left its loading state without a dataset.
FailedLoad(s) == ~s.loading /\ s.data = <<>>

\* Selector state s offers nothing and has nothing selected.
NothingToSelect(s) ==
    /\ s.regions = <<>> /\ s.provinces = <<>> /\ s.municipalities = <<>>
    /\ s.selectedRegion = "" /\ s.selectedProvince = "" /\ s.selectedMunicipality = ""

\* C34: a selector whose load failed is out of its loading state with empty
\* region, province and municipality lists and no selection, and what it
\* publishes is the national Scope; the step in which the load fails changes
\* nothing but the selector and makes no call to the embedding component.
C34_FailedLoadFailsClosed ==
    /\ [](/\ UploadTabMounted =>
               \A s \in Sections :
                  FailedLoad(sel[s])
                  => /\ NothingToSelect(sel[s])
                     /\ loc[s] = Scope("", "", "", "nazionale")
                     /\ \A e \in Events(out, "publish") :
                           e.who = s => e.scope = Scope("", "", "", "nazionale")
          /\ (ChatMounted /\ isContextOpen /\ FailedLoad(chatSel))
             => /\ NothingToSelect(chatSel)
                /\ \A e \in Events(out, "publish") :
                      e.who = 0 => e.scope = Scope("", "", "", "nazionale"))
    /\ [][ /\ \A s \in Sections :
                (UploadTabMounted /\ sel[s].loading /\ FailedLoad(sel'[s]))
                => /\ out' = <<>>
                   /\ UNCHANGED <<appVars, activeTab, loc, files, uploading,
                                  uploadStatus, errorMessage, chatVars>>
           /\ (ChatMounted /\ isContextOpen /\ chatSel.loading /\ FailedLoad(chatSel'))
              => /\ out' = <<>>
                 /\ UNCHANGED <<appVars, activeTab, sectionVars, chatLoc,
                                isContextOpen, chatMsgVars>> ]_vars

\* The load of the first section's selector failed and the user then chose
\* the placeholder of the country select: the national Scope was published.
C34_Witness ==
    /\ UploadTabMounted
    /\ FailedLoad(sel[1])
    /\ sel[1].selectedCountry = ""
    /\ out = <<PublishEvent(1, Scope("", "", "", "nazionale"))>>

\* ------------------------------------------------------------------ country claims

\* C35: a step that changes the country of a mounted selector of an upload
\* section to a value other than 'Italia' leaves region, province and
\* municipality empty and publishes, and stores in the section, the national
\* Scope with the three fields empty; while the country is not 'Italia'
\* nothing is selected and the region select offers no change.
C35_CountryChangeClearsAll ==
    /\ [][ \A s \in Sections :
             ( /\ UploadTabMounted /\ UploadTabMounted'
               /\ sel'[s].selectedCountry # sel[s].selectedCountry
               /\ sel'[s].selectedCountry # "Italia" )
             => /\ PublishDeps(sel'[s]) = <<sel'[s].selectedCountry, "", "", "">>
                /\ out' = <<PublishEvent(s, Scope("", "", "", "nazionale"))>>
                /\ loc'[s] = Scope("", "", "", "nazionale") ]_vars
    /\ [](UploadTabMounted =>
            \A s \in Sections :
               sel[s].selectedCountry # "Italia"
               => /\ sel[s].selectedRegion = ""
                  /\ sel[s].selectedProvince = ""
                  /\ sel[s].selectedMunicipality = ""
                  /\ \A r \in Names \cup {""} : ~CanSelectRegion(sel[s], r)
                  /\ loc[s] = Scope("", "", "", "nazionale"))

\* The country of the second section's selector, loaded with the dataset,
\* was changed to the placeholder.
C35_Witness ==
    /\ UploadTabMounted
    /\ sel[2].data = Data
    /\ sel[2].selectedCountry = ""
    /\ sel[2].provinces = <<>>
    /\ out = <<PublishEvent(2, Scope("", "", "", "nazionale"))>>

\* ------------------------------------------------------------------ context panel claims

\* C36: a step that opens or closes the context panel of the chat leaves a
\* working Scope that has a region, a province or a municipality as it is.
C36_PanelKeepsScope ==
    [][ ( /\ ChatMounted /\ ChatMounted'
          /\ isContextOpen' # isContextOpen
          /\ chatLoc # Scope("", "", "", chatLoc.normative_level) )
        => chatLoc' = chatLoc ]_vars

\* ------------------------------------------------------------------ upload request claims

\* The completions of the upload of section s observed in the last step.
Completions(o, s) ==
    {e \in Events(o, "onUploadSuccess") \cup Events(o, "failure") : e.who = s}

C38_UploadOutcomes ==
    /\ [][ /\ \A e \in Events(out', "failure") :
                 /\ files'[e.who] = files[e.who]
                 /\ uploadStatus'[e.who] = "error"
                 /\ errorMessage'[e.who] # ""
                 /\ Events(out', "onUploadSuccess") = {}
                 /\ Events(out', "upload") = {}
           /\ \A e \in Events(out', "onUploadSuccess") :
                 /\ out' = <<e>>
                 /\ uploadStatus'[e.who] = "success"
           /\ \A e \in Events(out', "upload") : Len(files[e.who]) > 0 ]_vars
    /\ [](\A s \in Sections : Len(files[s]) = 0 => ~ENABLED StartUpload(s))

\* An upload of two files failed with neither a detail nor a message.
C38_Witness ==
    /\ uploadStatus[1] = "error"
    /\ errorMessage[1] = "Errore sconosciuto"
    /\ Len(files[1]) = 2
    /\ \E e \in Events(out, "failure") : e.who = 1

\* ------------------------------------------------------------------ message id claims

\* C39: the ids of the messages of a mounted ChatAssistant are pairwise
\* distinct.
C39_MessageIdsDistinct ==
    ChatMounted => \A i, j \in 1..Len(ids) : i # j => ids[i] # ids[j]

\* ------------------------------------------------------------------ chat lifetime claims

\* C40: after every step that changes the tab the ChatAssistant state is the
\* initial one (the greeting alone, a Scope with no field, nothing typed, no
\* request in flight), and the completion of a request of an unmounted
\* ChatAssistant changes nothing of the mounted one.
C40_SessionEndsWithTab ==
    [][ /\ activeTab' # activeTab
           => /\ messages' = <<Greeting>>
              /\ chatLoc' = Scope("", "", "", "")
              /\ input' = <<>>
              /\ ~isLoading'
              /\ outstanding' = 0
        /\ \A e \in Events(out', "orphan") :
              /\ messages' = messages
              /\ isLoading' = isLoading
              /\ chatLoc' = chatLoc ]_vars

\* The user came back to the chat tab and sent a query; the answer to a
\* query of the session before then arrived.
C40_Witness ==
    /\ ChatMounted
    /\ Len(messages) = 2
    /\ isLoading
    /\ Events(out, "orphan") # {}

====
